---------------------------- MODULE Spec2Model ----------------------------
(***************************************************************************)
(* Diffusion posterior sampling: timestep respacing (space_timesteps,      *)
(* SpacedDiffusion, _WrappedModel) and the two posterior samplers          *)
(* (DiffusionPosteriorSampling, DPMDiffusionPosteriorSampling) of          *)
(* src/diffusion/respace.py, and the measurement operators of              *)
(* src/measurement_models/measurement_models.py.                           *)
(*                                                                         *)
(* Five specifications share the variables below:                          *)
(*   SpecRespace   one call of space_timesteps on a drawn input            *)
(*   SpecSpaced    construction of a SpacedDiffusion and calls of the      *)
(*                 wrapped model                                           *)
(*   Spec          a posterior sampler: the ancestral loop or the          *)
(*                 multistep solver update                                 *)
(*   SpecLoss      the shapes dps_update hands to the measurement loss     *)
(*   SpecOperators calls of one measurement operator instance              *)
(* A specification leaves the variables of the others at their idle        *)
(* values.                                                                 *)
(***************************************************************************)
EXTENDS Integers, Sequences, FiniteSets, TLC

VARIABLES
    \* ---- space_timesteps call
    sp_pc,              \* "ready" | "returned"
    sp_num_timesteps,   \* argument num_timesteps
    sp_section_counts,  \* argument section_counts (a list or a string)
    sp_result,          \* what the call produced (a set, or an exception)
    \* ---- SpacedDiffusion and _WrappedModel
    sd_pc,              \* "new" (before __init__) | "built"
    use_timesteps_arg,  \* the collection handed to __init__ (dead after it)
    alphas_cumprod,     \* base_diffusion.alphas_cumprod, numerators over AcDen
    rescale_timesteps,  \* kwargs["rescale_timesteps"]
    use_timesteps,      \* self.use_timesteps (a set)
    timestep_map,       \* self.timestep_map
    new_betas,          \* the betas handed to super().__init__, as <<num, den>>
    original_num_steps, \* self.original_num_steps
    num_timesteps,      \* self.num_timesteps
    held,               \* the model object the caller holds (raw or wrapped)
    model_calls,        \* how often the underlying model has been invoked
    last_model_call,    \* what the most recent call made of the denoiser
    last_invoke,        \* the most recent call made by the caller
    \* ---- the posterior samplers
    sampler,            \* "ancestral" (DiffusionPosteriorSampling) | "multistep"
    noise_model,        \* self.noise_model
    step_size,          \* self.step_size
    measurement,        \* self.measurement
    measurement_loss_fn, \* self.measurement_loss: "unset" | "MSELoss" | "PoissonMseLoss"
    init_raised,        \* the exception the constructor call ended with, or "none"
    pc,                 \* "new" | "failed" | "idle" | "loop" | "done" | "called"
    indices,            \* p_sample_loop_progressive: indices
    pos,                \* how many entries of indices the loop has consumed
    x_t,                \* the rolling sample
    yielded,            \* timestep of every step record yielded so far
    out,                \* the most recent step record
    upd,                \* what the most recent dps_update saw and computed
    final,              \* what p_sample_loop returned
    ms_calls,           \* number of multistep_dpm_solver_update calls so far
    ms,                 \* what the most recent of them saw and returned
    grad_enabled,       \* the caller's gradient mode (th.is_grad_enabled())
    x_ag,               \* what autograd holds of the rolling sample
    ag,                 \* what autograd held of the tensors of the latest step
    \* ---- the shapes in dps_update, up to the measurement loss
    ls_pc,              \* "ready" | "returned"
    ls_sampler,         \* whose dps_update: "ancestral" | "multistep"
    ls_noise_model,     \* self.noise_model
    ls_measurement,     \* shape of self.measurement
    ls_operator_out,    \* shape of self.measurement_model(x0)
    ls_result,          \* the shapes the loss was given, and what it did
    \* ---- a measurement operator instance
    op_kind,            \* its class
    op_fields,          \* its lazily built fields
    op_calls,           \* number of calls of it so far
    op_last             \* the most recent call: argument before and after, result

respaceVars == <<sp_pc, sp_num_timesteps, sp_section_counts, sp_result>>

spacedVars == <<sd_pc, use_timesteps_arg, alphas_cumprod, rescale_timesteps,
                use_timesteps, timestep_map, new_betas, original_num_steps,
                num_timesteps, held, model_calls, last_model_call, last_invoke>>

samplerVars == <<sampler, noise_model, step_size, measurement,
                 measurement_loss_fn, init_raised, pc, indices, pos,
                 x_t, yielded, out, upd, final, ms_calls, ms,
                 grad_enabled, x_ag, ag>>

lossVars == <<ls_pc, ls_sampler, ls_noise_model, ls_measurement,
              ls_operator_out, ls_result>>

operatorVars == <<op_kind, op_fields, op_calls, op_last>>

vars == <<respaceVars, spacedVars, samplerVars, lossVars, operatorVars>>

(***************************************************************************)
(* Generic helpers.                                                        *)
(***************************************************************************)
Range(s) == {s[i] : i \in 1..Len(s)}

RECURSIVE SumSeq(_)
SumSeq(s) == IF s = <<>> THEN 0 ELSE Head(s) + SumSeq(Tail(s))

Abs(a) == IF a < 0 THEN -a ELSE a

SeqsUpTo(S, n) == UNION {[1..k -> S] : k \in 0..n}

\* Python's round() of the rational num/den (den > 0): to the nearest integer,
\* a tie going to the even neighbour.
PyRound(num, den) ==
    LET q == num \div den
        r == num % den
    IN  IF 2 * r < den THEN q
        ELSE IF 2 * r > den THEN q + 1
        ELSE IF q % 2 = 0 THEN q ELSE q + 1

(***************************************************************************)
(* Strings are sequences of one-character strings, so that startswith,     *)
(* split and int are computed as Python computes them.                     *)
(***************************************************************************)
DigitChars == {"0", "1", "2", "3", "4", "5", "6", "7", "8", "9"}

DigitVal(c) ==
    CASE c = "0" -> 0 [] c = "1" -> 1 [] c = "2" -> 2 [] c = "3" -> 3
      [] c = "4" -> 4 [] c = "5" -> 5 [] c = "6" -> 6 [] c = "7" -> 7
      [] c = "8" -> 8 [] c = "9" -> 9

RECURSIVE DigitsVal(_, _)
DigitsVal(cs, acc) ==
    IF cs = <<>> THEN acc
    ELSE DigitsVal(Tail(cs), acc * 10 + DigitVal(Head(cs)))

\* int(text): an optional sign and at least one digit, else ValueError.
PyInt(cs) ==
    LET signed == cs # <<>> /\ Head(cs) \in {"-", "+"}
        body   == IF signed THEN Tail(cs) ELSE cs
    IN  IF body = <<>> \/ \E i \in 1..Len(body) : body[i] \notin DigitChars
        THEN [ok |-> FALSE, val |-> 0]
        ELSE [ok |-> TRUE,
              val |-> IF signed /\ Head(cs) = "-"
                      THEN 0 - DigitsVal(body, 0) ELSE DigitsVal(body, 0)]

\* text.split(","): the pieces between commas, empty pieces kept.
RECURSIVE PySplit(_, _, _)
PySplit(cs, cur, acc) ==
    IF cs = <<>> THEN Append(acc, cur)
    ELSE IF Head(cs) = "," THEN PySplit(Tail(cs), <<>>, Append(acc, cur))
    ELSE PySplit(Tail(cs), Append(cur, Head(cs)), acc)

DdimPrefix == <<"d", "d", "i", "m">>

StartsWithDdim(cs) == Len(cs) >= 4 /\ SubSeq(cs, 1, 4) = DdimPrefix

(***************************************************************************)
(* space_timesteps.                                                        *)
(***************************************************************************)
Returned(steps) == [raised |-> "none", steps |-> steps]
Raised(exc) == [raised |-> exc, steps |-> {}]

\* len(range(0, n, i)) and set(range(0, n, i)) for a stride i >= 1.
RangeLen(n, i) == IF n <= 0 THEN 0 ELSE (n + i - 1) \div i
RangeSet(n, i) == {k \in 0..(n - 1) : k % i = 0}

RECURSIVE DdimSearchInclusive(_, _, _)
DdimSearchInclusive(n_timesteps, desired_count, i) ==
    IF i > n_timesteps THEN Raised("ValueError")
    ELSE IF RangeLen(n_timesteps, i) = desired_count
         THEN Returned(RangeSet(n_timesteps, i))
         ELSE DdimSearchInclusive(n_timesteps, desired_count, i + 1)
\* for i in range(1, num_timesteps): the first stride giving desired_count.
RECURSIVE DdimSearch(_, _, _)
DdimSearch(n_timesteps, desired_count, i) ==
    IF i >= n_timesteps THEN Raised("ValueError")
    ELSE IF RangeLen(n_timesteps, i) = desired_count
         THEN Returned(RangeSet(n_timesteps, i))
         ELSE DdimSearch(n_timesteps, desired_count, i + 1)

\* frac_stride as the rational num/den.
FracStrideNumMissingMinusOne(size, section_count) == size
FracStrideNum(size, section_count) ==
    IF section_count <= 1 THEN 1 ELSE size - 1
FracStrideDen(size, section_count) ==
    IF section_count <= 1 THEN 1 ELSE section_count - 1

\* The inner loop: for _ in range(section_count) appends
\* start_idx + round(cur_idx) and adds frac_stride to cur_idx, so the k-th
\* pass (k = 0, 1, ...) sees cur_idx = k * frac_stride.  The code sums
\* floats; the sum is taken exactly here, which can differ from the float
\* sum only in the direction an exact tie (x.5) is rounded.
TakenSteps(start_idx, size, section_count) ==
    [j \in 1..section_count |->
        start_idx + PyRound((j - 1) * FracStrideNum(size, section_count),
                            FracStrideDen(size, section_count))]

SectionSizeOffByOne(size_per, extra, i) ==
    size_per + (IF i <= extra THEN 1 ELSE 0)
\* size of section i (0-based, as enumerate gives it).
SectionSize(size_per, extra, i) ==
    size_per + (IF i < extra THEN 1 ELSE 0)

SectionTooSmallInclusive(size, section_count) == size <= section_count
\* if size < section_count: raise ValueError
SectionTooSmall(size, section_count) == size < section_count

\* The outer loop over the sections; i is 0-based.
RECURSIVE SectionLoop(_, _, _, _, _, _)
SectionLoop(section_counts, i, size_per, extra, start_idx, all_steps) ==
    IF i >= Len(section_counts) THEN Returned(Range(all_steps))
    ELSE LET size == SectionSize(size_per, extra, i)
             section_count == section_counts[i + 1]
         IN  IF SectionTooSmall(size, section_count) THEN Raised("ValueError")
             ELSE SectionLoop(section_counts, i + 1, size_per, extra,
                              start_idx + size,
                              all_steps \o TakenSteps(start_idx, size, section_count))

Sections(n_timesteps, section_counts) ==
    IF Len(section_counts) = 0 THEN Raised("ZeroDivisionError")
    ELSE SectionLoop(section_counts, 0,
                     n_timesteps \div Len(section_counts),
                     n_timesteps % Len(section_counts), 0, <<>>)

\* section_counts = [int(x) for x in section_counts.split(",")]
ParseCounts(cs) ==
    LET parts == PySplit(cs, <<>>, <<>>)
    IN  IF \E i \in 1..Len(parts) : ~PyInt(parts[i]).ok
        THEN [ok |-> FALSE, counts |-> <<>>]
        ELSE [ok |-> TRUE, counts |-> [i \in 1..Len(parts) |-> PyInt(parts[i]).val]]

space_timesteps(n_timesteps, section_counts) ==
    IF section_counts.kind = "str"
    THEN IF StartsWithDdim(section_counts.chars)
         THEN LET desired == PyInt(SubSeq(section_counts.chars, 5,
                                          Len(section_counts.chars)))
              IN  IF ~desired.ok THEN Raised("ValueError")
                  ELSE DdimSearch(n_timesteps, desired.val, 1)
         ELSE LET parsed == ParseCounts(section_counts.chars)
              IN  IF ~parsed.ok THEN Raised("ValueError")
                  ELSE Sections(n_timesteps, parsed.counts)
    ELSE Sections(n_timesteps, section_counts.counts)

(***************************************************************************)
(* SpacedDiffusion.  The base schedule is given by its alphas_cumprod, as  *)
(* numerators over the common denominator AcDen (rationals, exact), one    *)
(* entry per original beta; betas in (0, 1) make it strictly decreasing    *)
(* and positive.                                                           *)
(***************************************************************************)
AcDen == 5          \* alphas_cumprod[i] is one of 1/AcDen .. (AcDen-1)/AcDen
MaxOrig == 3        \* the original schedule has MaxOrig steps
MaxUse == 2         \* use_timesteps is a sequence of at most MaxUse entries

Schedules ==
    {a \in [1..MaxOrig -> 1..(AcDen - 1)] :
        \A i \in 1..(Len(a) - 1) : a[i] > a[i + 1]}

\* Any order, duplicates, and indices outside the original schedule.
UseTimestepsInputs == SeqsUpTo(0..MaxOrig, MaxUse)

\* The model objects: the raw denoiser, and a _WrappedModel around a model.
\* The field model is self.model: <<>> when that is the raw denoiser, and
\* <<m>> when it is itself the _WrappedModel m.
RawModel ==
    [wrapped |-> FALSE, timestep_map |-> <<>>, rescale_timesteps |-> FALSE,
     original_num_steps |-> 0, model |-> <<>>]

\* _WrappedModel.__init__
WrappedModel(model, tmap, rescale, orig) ==
    [wrapped |-> TRUE, timestep_map |-> tmap, rescale_timesteps |-> rescale,
     original_num_steps |-> orig,
     model |-> IF model.wrapped THEN <<model>> ELSE <<>>]

\* The loop of SpacedDiffusion.__init__ over enumerate(alphas_cumprod); i is
\* 0-based, last is the numerator of last_alpha_cumprod (1.0 = AcDen/AcDen),
\* and 1 - alpha_cumprod / last_alpha_cumprod is (last - a) / last.
RECURSIVE InitLoopKeepsLast(_, _, _, _, _, _)
InitLoopKeepsLast(ac, use, i, last, betas, tmap) ==
    IF i >= Len(ac) THEN [new_betas |-> betas, timestep_map |-> tmap]
    ELSE IF i \in use
         THEN InitLoopKeepsLast(ac, use, i + 1, last,
                                Append(betas, <<last - ac[i + 1], last>>),
                                Append(tmap, i))
         ELSE InitLoopKeepsLast(ac, use, i + 1, last, betas, tmap)
RECURSIVE InitLoopPrepends(_, _, _, _, _, _)
InitLoopPrepends(ac, use, i, last, betas, tmap) ==
    IF i >= Len(ac) THEN [new_betas |-> betas, timestep_map |-> tmap]
    ELSE IF i \in use
         THEN InitLoopPrepends(ac, use, i + 1, ac[i + 1],
                               Append(betas, <<last - ac[i + 1], last>>),
                               <<i>> \o tmap)
         ELSE InitLoopPrepends(ac, use, i + 1, last, betas, tmap)
RECURSIVE InitLoop(_, _, _, _, _, _)
InitLoop(ac, use, i, last, betas, tmap) ==
    IF i >= Len(ac) THEN [new_betas |-> betas, timestep_map |-> tmap]
    ELSE IF i \in use
         THEN InitLoop(ac, use, i + 1, ac[i + 1],
                       Append(betas, <<last - ac[i + 1], last>>),
                       Append(tmap, i))
         ELSE InitLoop(ac, use, i + 1, last, betas, tmap)

\* GaussianDiffusion.__init__(betas=...): the process has one step per beta.
GaussianDiffusion_num_timesteps(betas) == Len(betas)

\* SpacedDiffusion.__init__
SpacedDiffusionInit ==
    /\ sd_pc = "new"
    /\ LET use == Range(use_timesteps_arg)
           built == InitLoop(alphas_cumprod, use, 0, AcDen, <<>>, <<>>)
       IN  /\ use_timesteps' = use
           /\ timestep_map' = built.timestep_map
           /\ original_num_steps' = Len(alphas_cumprod)
           /\ new_betas' = built.new_betas
           /\ num_timesteps' = GaussianDiffusion_num_timesteps(built.new_betas)
    /\ use_timesteps_arg' = <<>>
    /\ sd_pc' = "built"
    /\ UNCHANGED <<alphas_cumprod, rescale_timesteps, held, model_calls,
                   last_model_call, last_invoke>>
    /\ UNCHANGED <<respaceVars, samplerVars, lossVars, operatorVars>>

_wrap_model_always(model) ==
    WrappedModel(model, timestep_map, rescale_timesteps, original_num_steps)
\* SpacedDiffusion._wrap_model
_wrap_model(model) ==
    IF model.wrapped THEN model
    ELSE WrappedModel(model, timestep_map, rescale_timesteps, original_num_steps)

\* SpacedDiffusion._scale_timesteps: scaling is done by the wrapped model.
_scale_timesteps(t) == t

\* new_ts.float() * (1000.0 / original_num_steps), as the rational <<num, den>>.
RescaledByNumTimesteps(v, wm) == <<v * 1000, Len(wm.timestep_map)>>
Rescaled(v, wm) == <<v * 1000, wm.original_num_steps>>

\* _WrappedModel.__call__: map_tensor[ts], rescaled if configured, then one
\* call of self.model(x, new_ts, **kwargs).  An index past either end of the
\* map raises IndexError before the model is reached; a negative index within
\* the map counts from its end.  When self.model is itself a _WrappedModel,
\* new_ts is translated again by it (and cannot index its map once rescaled
\* to floats).
RECURSIVE WrappedModelCall(_, _, _, _)
WrappedModelCall(wm, x, ts, kwargs) ==
    LET n == Len(wm.timestep_map)
        at(v) == wm.timestep_map[(IF v < 0 THEN v + n ELSE v) + 1]
    IN  IF \E k \in 1..Len(ts) : ts[k] < 0 - n \/ ts[k] >= n
        THEN [raised |-> "IndexError", x |-> x, ts |-> <<>>, kwargs |-> kwargs]
        ELSE IF wm.model = <<>>
        THEN [raised |-> "none", x |-> x, kwargs |-> kwargs,
              ts |-> [k \in 1..Len(ts) |->
                        IF wm.rescale_timesteps
                        THEN Rescaled(at(ts[k]), wm)
                        ELSE <<at(ts[k]), 1>>]]
        ELSE IF wm.rescale_timesteps
        THEN [raised |-> "IndexError", x |-> x, ts |-> <<>>, kwargs |-> kwargs]
        ELSE WrappedModelCall(wm.model[1], x,
                              [k \in 1..Len(ts) |-> at(ts[k])], kwargs)

MaxModelCalls == 1      \* at most this many invocations of the denoiser

\* The sample and the keyword arguments of a call.
CallArgs == {[x |-> "x_a", kwargs |-> "none"], [x |-> "x_b", kwargs |-> "y=class"]}

\* A batch of one or two spaced-schedule indices; Len(timestep_map) itself is
\* the first index past the end.
TsBatches == UNION {[1..b -> 0..Len(timestep_map)] : b \in 1..2}

NoCall == [raised |-> "none", x |-> "none", ts |-> <<>>, kwargs |-> "none"]
NoInvoke == [entry |-> "none", x |-> "none", ts |-> <<>>, kwargs |-> "none",
             calls_before |-> 0]

\* The effect of a call that reaches WrappedModelCall: last_model_call is what
\* the call made of the denoiser (or the exception that kept it from it), and
\* model_calls counts the denoiser's invocations.
Invoke(entry, wm, x, ts_given, ts_passed, kwargs) ==
    LET r == WrappedModelCall(wm, x, ts_passed, kwargs)
    IN  /\ last_invoke' = [entry |-> entry, x |-> x, ts |-> ts_given,
                           kwargs |-> kwargs, calls_before |-> model_calls]
        /\ last_model_call' = r
        /\ model_calls' = IF r.raised = "none" THEN model_calls + 1
                                               ELSE model_calls

\* The caller wraps the model it holds (diffusion._wrap_model(model)).
WrapModel ==
    /\ sd_pc = "built"
    /\ held' = _wrap_model(held)
    /\ held' # held
    /\ UNCHANGED <<sd_pc, use_timesteps_arg, alphas_cumprod, rescale_timesteps,
                   use_timesteps, timestep_map, new_betas, original_num_steps,
                   num_timesteps, model_calls, last_model_call, last_invoke>>
    /\ UNCHANGED <<respaceVars, samplerVars, lossVars, operatorVars>>

\* The caller calls the wrapped model it holds: wrapped(x, ts, **kwargs).
CallWrapped ==
    /\ sd_pc = "built"
    /\ held.wrapped
    /\ model_calls < MaxModelCalls
    /\ \E a \in CallArgs, ts \in TsBatches :
          Invoke("call", held, a.x, ts, ts, a.kwargs)
    /\ UNCHANGED <<sd_pc, use_timesteps_arg, alphas_cumprod, rescale_timesteps,
                   use_timesteps, timestep_map, new_betas, original_num_steps,
                   num_timesteps, held>>
    /\ UNCHANGED <<respaceVars, samplerVars, lossVars, operatorVars>>

\* GaussianDiffusion.p_mean_variance queries the model it is given once, as
\* model(x, self._scale_timesteps(t), **model_kwargs).
GaussianDiffusion_p_mean_variance(model, x, t, kwargs) ==
    Invoke("p_mean_variance", model, x, t, _scale_timesteps(t), kwargs)

\* SpacedDiffusion.p_mean_variance(model, x, t): wraps the model and hands it
\* to GaussianDiffusion.p_mean_variance.
PMeanVariance ==
    /\ sd_pc = "built"
    /\ model_calls < MaxModelCalls
    /\ \E a \in CallArgs, ts \in TsBatches :
          GaussianDiffusion_p_mean_variance(_wrap_model(held), a.x, ts, a.kwargs)
    /\ UNCHANGED <<sd_pc, use_timesteps_arg, alphas_cumprod, rescale_timesteps,
                   use_timesteps, timestep_map, new_betas, original_num_steps,
                   num_timesteps, held>>
    /\ UNCHANGED <<respaceVars, samplerVars, lossVars, operatorVars>>

\* A batch of one spaced-schedule index.
TsSingles == [1..1 -> 0..Len(timestep_map)]

\* GaussianDiffusion.condition_mean and condition_score query the function
\* they are given once, as cond_fn(x, self._scale_timesteps(t), **model_kwargs).
GaussianDiffusion_condition(entry, cond_fn, x, t, kwargs) ==
    Invoke(entry, cond_fn, x, t, _scale_timesteps(t), kwargs)

\* SpacedDiffusion.condition_mean(cond_fn, x, t): wraps cond_fn and hands it
\* to GaussianDiffusion.condition_mean.
ConditionMean ==
    /\ sd_pc = "built"
    /\ model_calls < MaxModelCalls
    /\ \E a \in CallArgs, ts \in TsSingles :
          GaussianDiffusion_condition("condition_mean", _wrap_model(held),
                                      a.x, ts, a.kwargs)
    /\ UNCHANGED <<sd_pc, use_timesteps_arg, alphas_cumprod, rescale_timesteps,
                   use_timesteps, timestep_map, new_betas, original_num_steps,
                   num_timesteps, held>>
    /\ UNCHANGED <<respaceVars, samplerVars, lossVars, operatorVars>>

\* SpacedDiffusion.condition_score(cond_fn, x, t): likewise.
ConditionScore ==
    /\ sd_pc = "built"
    /\ model_calls < MaxModelCalls
    /\ \E a \in CallArgs, ts \in TsSingles :
          GaussianDiffusion_condition("condition_score", _wrap_model(held),
                                      a.x, ts, a.kwargs)
    /\ UNCHANGED <<sd_pc, use_timesteps_arg, alphas_cumprod, rescale_timesteps,
                   use_timesteps, timestep_map, new_betas, original_num_steps,
                   num_timesteps, held>>
    /\ UNCHANGED <<respaceVars, samplerVars, lossVars, operatorVars>>

SpacedIdle ==
    /\ sd_pc = "idle"
    /\ use_timesteps_arg = <<>>
    /\ alphas_cumprod = <<>>
    /\ rescale_timesteps = FALSE
    /\ use_timesteps = {}
    /\ timestep_map = <<>>
    /\ new_betas = <<>>
    /\ original_num_steps = 0
    /\ num_timesteps = 0
    /\ held = RawModel
    /\ model_calls = 0
    /\ last_model_call = NoCall
    /\ last_invoke = NoInvoke

(***************************************************************************)
(* The posterior samplers.                                                 *)
(*                                                                         *)
(* A sample-shaped tensor (x, mean, noise, gradient, proposal) is the      *)
(* sequence of its batch elements, one entry each.  A measurement-shaped   *)
(* tensor is [rank, data].  Entries are machine numbers on a grid: an      *)
(* integer counts units in the last place, sums and products of entries    *)
(* are exact, and an operation whose exact result is off the grid (a       *)
(* square root, a quotient, a product with 0.7 or 0.3) rounds to the       *)
(* nearest grid point, ties to even.                                       *)
(***************************************************************************)
RECURSIVE ISqrt(_, _)
ISqrt(n, s) == IF (s + 1) * (s + 1) > n THEN s ELSE ISqrt(n, s + 1)

\* sqrt(n), rounded to the grid ((s + 1/2)^2 = s^2 + s + 1/4).
FSqrt(n) == LET s == ISqrt(n, 0) IN IF n - s * s > s THEN s + 1 ELSE s

\* The value a quotient by zero takes (IEEE infinity; no exception is raised).
Inf == 2 ^ 20

\* a / b for b >= 0, rounded to the grid.
FDiv(a, b) == IF b = 0 THEN Inf ELSE PyRound(a, b)

\* (num / den) * a, rounded to the grid.
FScale(num, den, a) == PyRound(num * a, den)

\* th.exp(0.5 * log_variance); log_variance is held in units of 2 ln 2, so
\* that the exponential is the grid point 2^lv.
ExpHalf(lv) == 2 ^ lv

\* Exact rationals <<num, den>>, den > 0, for the loss.
RatAdd(p, q) == <<p[1] * q[2] + q[1] * p[2], p[2] * q[2]>>

RECURSIVE RatSum(_)
RatSum(s) == IF s = <<>> THEN <<0, 1>> ELSE RatAdd(Head(s), RatSum(Tail(s)))

RatPositive(p) == p[1] > 0

\* tensor.unsqueeze(0)
Unsqueeze(tensor) == [tensor EXCEPT !.rank = @ + 1]

\* th.nn.MSELoss(reduction="sum")
MSELoss(x, y) ==
    RatSum([k \in 1..Len(x.data) |->
               <<(x.data[k] - y.data[k]) * (x.data[k] - y.data[k]), 1>>])

\* PoissonMseLoss.forward: weights = 1 / (2 * |y|.clamp(min=1e-2)), the clamp
\* taken in hundredths; loss = (weights * diff * diff).sum().
PoissonMseLoss(x, y) ==
    RatSum([k \in 1..Len(x.data) |->
               LET clamped100 == IF 100 * Abs(y.data[k]) < 1 THEN 1
                                 ELSE 100 * Abs(y.data[k])
                   diff == x.data[k] - y.data[k]
               IN  <<100 * diff * diff, 2 * clamped100>>])

\* self.measurement_loss, as __init__ selects it.
measurement_loss(x, y) ==
    IF measurement_loss_fn = "MSELoss" THEN MSELoss(x, y) ELSE PoissonMseLoss(x, y)

\* th.linalg.norm(th.abs(y_pred - self.measurement))
ResidualNorm(y_pred, meas) ==
    FSqrt(SumSeq([k \in 1..Len(y_pred.data) |->
                     Abs(y_pred.data[k] - meas.data[k])
                     * Abs(y_pred.data[k] - meas.data[k])]))

zeta_i_unguarded(loss, y_pred) ==
    FDiv(step_size, ResidualNorm(y_pred, measurement))
\* DiffusionPosteriorSampling.dps_update: the step size.
zeta_i(loss, y_pred) ==
    IF RatPositive(loss) THEN FDiv(step_size, ResidualNorm(y_pred, measurement))
    ELSE step_size

\* DPMDiffusionPosteriorSampling.dps_update: the step size.
dpm_zeta_i(loss, y_pred) ==
    IF RatPositive(loss) THEN FDiv(step_size, ResidualNorm(y_pred, measurement))
    ELSE step_size

\* The body shared by the two dps_update methods.  y_pred_op is what
\* self.measurement_model(x0) returns and grad is what
\* th.autograd.grad(loss, x)[0] returns; both come from outside this module
\* and are arguments here.
DpsUpdateWith(zeta, x_old, y_pred, loss, grad) ==
    [x_new |-> [k \in 1..Len(x_old) |-> x_old[k] - zeta * grad[k]],
     x_old |-> x_old, grad |-> grad, y_pred |-> y_pred, loss |-> loss,
     zeta |-> zeta,
     div_by_zero |-> RatPositive(loss) /\ ResidualNorm(y_pred, measurement) = 0]

\* DiffusionPosteriorSampling.dps_update
dps_update(x, t, x0, x_old, y_pred_op, grad) ==
    LET meas == IF measurement.rank # 4 THEN Unsqueeze(measurement) ELSE measurement
        y_pred == IF y_pred_op.rank # 4 THEN Unsqueeze(y_pred_op) ELSE y_pred_op
        loss == measurement_loss(y_pred, meas)
    IN  DpsUpdateWith(zeta_i(loss, y_pred), x_old, y_pred, loss, grad)

\* DPMDiffusionPosteriorSampling.dps_update
dpm_dps_update(x, t, x0, x_old, y_pred_op, grad) ==
    LET meas == IF measurement.rank # 4 THEN Unsqueeze(measurement) ELSE measurement
        y_pred == IF y_pred_op.rank # 4 THEN Unsqueeze(y_pred_op) ELSE y_pred_op
        loss == measurement_loss(y_pred, meas)
    IN  DpsUpdateWith(dpm_zeta_i(loss, y_pred), x_old, y_pred, loss, grad)

nonzero_mask_always(t) == [k \in 1..Len(t) |-> 1]
\* (t != 0).float().view(-1, 1, ...): one factor per batch element.
nonzero_mask(t) == [k \in 1..Len(t) |-> IF t[k] # 0 THEN 1 ELSE 0]

\* DiffusionPosteriorSampling.p_sample.  pmv is what self.p_mean_variance
\* returns (mean, log_variance, pred_xstart) and noise what th.randn_like
\* draws.  The result is the step record, with what dps_update saw.
p_sample(x, t, pmv, noise, y_pred_op, grad) ==
    LET sample == [k \in 1..Len(x) |->
                      pmv.mean[k]
                      + nonzero_mask(t)[k] * ExpHalf(pmv.log_variance[k]) * noise[k]]
        x0_hat == pmv.pred_xstart
        dps == dps_update(x, t, x0_hat, sample, y_pred_op, grad)
    IN  [record |-> [sample |-> dps.x_new, pred_xstart |-> x0_hat,
                     mean |-> pmv.mean],
         dps |-> dps, t |-> t, pmv |-> pmv, noise |-> noise]

indices_ascending(n) == [j \in 1..n |-> j - 1]
\* list(range(self.num_timesteps))[::-1]
reversed_range(n) == [j \in 1..n |-> n - j]

BlendSwapped(x_new, proposal) ==
    [k \in 1..Len(proposal) |->
        FScale(3, 10, x_new[k]) + FScale(7, 10, proposal[k])]
\* x_out = 0.7 * x_new + 0.3 * proposal
Blend(x_new, proposal) ==
    [k \in 1..Len(proposal) |->
        FScale(7, 10, x_new[k]) + FScale(3, 10, proposal[k])]

SolverProposalFirstOrder(order, props) == props[1]
\* The DPM step: the proposal is dpm_solver_first_update for order 1,
\* multistep_dpm_solver_second_update for order 2 and
\* multistep_dpm_solver_third_update for order 3.
SolverProposal(order, props) == props[order]

\* DPMDiffusionPosteriorSampling.multistep_dpm_solver_update.  props holds
\* what dpm_solver_first_update, multistep_dpm_solver_second_update and
\* multistep_dpm_solver_third_update would return; x0_pred is what
\* _predict_xstart_from_eps returns.
multistep_dpm_solver_update(xt, t, order, props, x0_pred, y_pred_op, grad) ==
    IF order \notin {1, 2, 3}
    THEN [raised |-> "ValueError", order |-> order, props |-> props,
          proposal |-> <<>>, x_out |-> <<>>, dps |-> <<>>]
    ELSE LET proposal == SolverProposal(order, props)
             dps == dpm_dps_update(xt, t, x0_pred, proposal, y_pred_op, grad)
         IN  [raised |-> "none", order |-> order, props |-> props,
              proposal |-> proposal, x_out |-> Blend(dps.x_new, proposal),
              dps |-> dps]

(***************************************************************************)
(* Autograd.  Beside its value a tensor carries what autograd holds of it: *)
(* whether it requires grad, the steps whose operations are in the graph   *)
(* reachable from it (step 0 stands for what the caller ran before), and   *)
(* the tensors requiring grad that this graph passes through.  A tensor    *)
(* with an empty graph is a leaf.                                          *)
(***************************************************************************)
Leaf(id, requires_grad) ==
    [id |-> id, requires_grad |-> requires_grad, graph |-> {}, through |-> {}]

\* The same tensor under the name a callee gives it.
Named(id, tensor) == [tensor EXCEPT !.id = id]

DetachKeepsHistory(tensor) == tensor
\* tensor.detach()
Detach(tensor) == Leaf(tensor.id, FALSE)

\* tensor.requires_grad_(True)
RequiresGrad(tensor) == [tensor EXCEPT !.requires_grad = TRUE]

SetGradEnabledInherited(outer, mode) == outer
\* with th.set_grad_enabled(mode): the mode inside the block.
SetGradEnabled(outer, mode) == mode

\* with th.no_grad(): the mode inside the block.
NoGrad(outer) == FALSE

\* The result of a differentiable operation on inputs, run in mode enabled
\* during step: it is recorded only if the mode is on and some input
\* requires grad.
AgOp(id, enabled, inputs, step) ==
    LET tracked == {m \in inputs : m.requires_grad}
    IN  IF enabled /\ tracked # {}
        THEN [id |-> id, requires_grad |-> TRUE,
              graph |-> {step} \cup UNION {m.graph : m \in tracked},
              through |-> UNION {m.through \cup {m.id} : m \in tracked}]
        ELSE Leaf(id, FALSE)

\* th.autograd.grad(outputs, inputs)[0]: RuntimeError if outputs does not
\* require grad or inputs is not in its graph; the gradient has no history.
AutogradGrad(outputs, inputs) ==
    [raised |-> IF outputs.requires_grad /\ inputs.id \in outputs.through
                THEN "none" ELSE "RuntimeError",
     wrt |-> inputs.id,
     grad |-> Leaf("grad", FALSE)]

\* th.autograd.grad(loss, x): the tensor differentiated against.
GradWrt(x, x0) == x

\* The body shared by the two dps_update methods, as autograd sees it;
\* caller is the mode dps_update is entered in.
DpsUpdateAutograd(caller, x, x0, x_old, step) ==
    LET tracing == SetGradEnabled(caller, TRUE)
        y_pred == AgOp("y_pred", tracing, {x0}, step)
        loss == AgOp("loss", tracing, {y_pred, Leaf("measurement", FALSE)}, step)
        g == AutogradGrad(loss, GradWrt(x, x0))
        silent == NoGrad(caller)
        zeta == AgOp("zeta_i", silent, {y_pred}, step)
        x_new == AgOp("x_new", silent, {x_old, zeta, g.grad}, step)
    IN  [operator_mode |-> tracing, loss_mode |-> tracing, grad_mode |-> tracing,
         zeta_mode |-> silent, update_mode |-> silent,
         x |-> x, x0 |-> x0, y_pred |-> y_pred, loss |-> loss,
         grad_raised |-> g.raised, grad_wrt |-> g.wrt, grad |-> g.grad,
         zeta |-> zeta, x_new |-> x_new]

\* DiffusionPosteriorSampling.dps_update: return x_new.detach()
dps_update_autograd(caller, x, x0, x_old, step) ==
    LET r == DpsUpdateAutograd(caller, x, x0, x_old, step)
    IN  [body |-> r, returned |-> Detach(r.x_new)]

\* DPMDiffusionPosteriorSampling.dps_update: return x_new
dpm_dps_update_autograd(caller, x, x0, x_old, step) ==
    LET r == DpsUpdateAutograd(caller, x, x0, x_old, step)
    IN  [body |-> r, returned |-> r.x_new]

\* DiffusionPosteriorSampling.p_sample, as autograd sees it; caller is the
\* mode p_sample is entered in and x the tensor it is given.
p_sample_autograd(caller, x, step) ==
    LET x_in == Named("x", x)
        xt == RequiresGrad(x_in)
        query == SetGradEnabled(caller, TRUE)
        mean == AgOp("mean", query, {xt}, step)
        log_variance == AgOp("log_variance", query, {xt}, step)
        pred_xstart == AgOp("pred_xstart", query, {xt}, step)
        noise == Leaf("noise", FALSE)
        sample == AgOp("sample", caller, {mean, log_variance, noise}, step)
        dps == dps_update_autograd(SetGradEnabled(caller, TRUE), xt,
                                   pred_xstart, sample, step)
    IN  [valid |-> TRUE, step |-> step, caller |-> caller, x_in |-> x_in,
         x |-> xt, query_mode |-> query, mean |-> mean,
         log_variance |-> log_variance, x0 |-> pred_xstart,
         proposal |-> sample, dps |-> dps.body, returned |-> dps.returned]

\* DPMDiffusionPosteriorSampling.multistep_dpm_solver_update with an order
\* in 1..3, as autograd sees it.
multistep_dpm_solver_update_autograd(caller, x_in, step) ==
    LET xt == RequiresGrad(Detach(Named("x_t", x_in)))
        query == SetGradEnabled(SetGradEnabled(caller, TRUE), TRUE)
        eps == AgOp("eps", query, {xt}, step)
        x0_pred == AgOp("x0_pred", SetGradEnabled(caller, TRUE), {xt, eps}, step)
        proposal == AgOp("proposal", NoGrad(caller),
                         {xt, Leaf("model_prev_list", FALSE)}, step)
        dps == dpm_dps_update_autograd(SetGradEnabled(caller, TRUE), xt,
                                       x0_pred, proposal, step)
        x_out == AgOp("x_out", caller, {dps.returned, proposal}, step)
    IN  [valid |-> TRUE, step |-> step, caller |-> caller,
         x_in |-> Named("x_t", x_in), x |-> xt, query_mode |-> query,
         mean |-> eps, log_variance |-> eps, x0 |-> x0_pred,
         proposal |-> proposal, dps |-> dps.body,
         returned |-> RequiresGrad(Detach(x_out))]

NoAutograd == [valid |-> FALSE]

\* What a caller can hand in: a tensor without history, or one that requires
\* grad and carries the graph of what the caller computed it from.
CallerTensors ==
    {Leaf("x", FALSE),
     [id |-> "x", requires_grad |-> TRUE, graph |-> {0}, through |-> {"earlier"}]}

(***************************************************************************)
(* What the collaborators can return in one step.                          *)
(***************************************************************************)
MaxT == 3           \* num_timesteps is drawn from 1..MaxT
MaxUpdates == 2     \* at most this many multistep updates in a run

StepSizes == {1, 8}
Measurements == {[rank |-> 3, data |-> <<0, 0>>], [rank |-> 4, data |-> <<1, 2>>]}
YPreds ==
    {[rank |-> 4, data |-> <<0, 0>>], [rank |-> 4, data |-> <<1, 2>>],
     [rank |-> 3, data |-> <<3, -2>>]}
NoiseModelNames == {"gaussian", "poisson", "Gaussian", "laplace"}
Grads == {<<0, 0>>, <<2, -4>>}
InitialSamples == {<<1, -1>>, <<0, 2>>}
PmvOutputs ==
    {[mean |-> e[1], log_variance |-> lv, pred_xstart |-> e[2]] :
        e \in {<< <<0, 0>>, <<1, 1>> >>, << <<3, -1>>, <<0, 2>> >>},
        lv \in {<<0, 0>>, <<1, 2>>}}
Noises == {<<1, -1>>, <<0, 2>>}
ProposalTriples ==
    {<< <<5, -5>>, <<1, 0>>, <<2, 4>> >>, << <<2, 3>>, <<5, 15>>, <<-5, 0>> >>}
Orders == 0..4
Times == {1}
PredXstarts == {<<1, 1>>}

NoRecord == [sample |-> <<>>, pred_xstart |-> <<>>, mean |-> <<>>]
NoUpdate == [valid |-> FALSE]
NoMultistep == [raised |-> "none", order |-> 0, props |-> <<>>,
                proposal |-> <<>>, x_out |-> <<>>, dps |-> <<>>]

UpdateOf(r) ==
    [valid |-> TRUE, dps |-> r.dps, t |-> r.t, pmv |-> r.pmv, noise |-> r.noise]

SamplerIdle ==
    /\ sampler = "none"
    /\ noise_model = "gaussian"
    /\ step_size = 1
    /\ measurement = [rank |-> 4, data |-> <<0, 0>>]
    /\ measurement_loss_fn = "unset"
    /\ init_raised = "none"
    /\ pc = "off"
    /\ indices = <<>>
    /\ pos = 0
    /\ x_t = <<>>
    /\ yielded = <<>>
    /\ out = NoRecord
    /\ upd = NoUpdate
    /\ final = <<>>
    /\ ms_calls = 0
    /\ ms = NoMultistep
    /\ grad_enabled = TRUE
    /\ x_ag = Leaf("x_t", FALSE)
    /\ ag = NoAutograd

samplerConfig == <<sampler, noise_model, step_size, measurement,
                   measurement_loss_fn, init_raised, grad_enabled>>

\* A constructor call Class(...): an __init__ that returns anything but None
\* makes the call raise TypeError, and the caller gets no object.
PyInitReturnIgnored(returned) == "none"
PyInitReturn(returned) == IF returned = "None" THEN "none" ELSE "TypeError"

\* DiffusionPosteriorSampling.__init__, from self.noise_model on: an unknown
\* name prints a message and returns the class NotImplementedError.
dps_init(name) ==
    IF name = "gaussian"
    THEN [measurement_loss |-> "MSELoss", raised |-> PyInitReturn("None")]
    ELSE IF name = "poisson"
    THEN [measurement_loss |-> "PoissonMseLoss", raised |-> PyInitReturn("None")]
    ELSE [measurement_loss |-> "unset",
          raised |-> PyInitReturn("NotImplementedError")]

\* DPMDiffusionPosteriorSampling.__init__, from self.noise_model on: an
\* unknown name raises NotImplementedError.
dpm_init(name) ==
    IF name = "gaussian"
    THEN [measurement_loss |-> "MSELoss", raised |-> PyInitReturn("None")]
    ELSE IF name = "poisson"
    THEN [measurement_loss |-> "PoissonMseLoss", raised |-> PyInitReturn("None")]
    ELSE [measurement_loss |-> "unset", raised |-> "NotImplementedError"]

\* The caller constructs the sampler; it has the object only if the call
\* raised nothing.
SamplerInit ==
    /\ pc = "new"
    /\ LET r == IF sampler = "ancestral" THEN dps_init(noise_model)
                ELSE dpm_init(noise_model)
       IN  /\ measurement_loss_fn' = r.measurement_loss
           /\ init_raised' = r.raised
           /\ pc' = IF r.raised = "none" THEN "idle" ELSE "failed"
    /\ UNCHANGED <<sampler, noise_model, step_size, measurement, indices, pos,
                   x_t, yielded, out, upd, final, ms_calls, ms,
                   grad_enabled, x_ag, ag>>
    /\ UNCHANGED <<respaceVars, spacedVars, lossVars, operatorVars>>

\* for i in indices: another index is left, or the loop is exhausted.
LoopHasNext == pos < Len(indices)
LoopExhausted == pos >= Len(indices)

\* p_sample_loop_progressive up to its loop: x_t = th.randn(*shape), indices.
PSampleLoopBegin ==
    /\ sampler = "ancestral"
    /\ pc = "idle"
    /\ x_t' \in InitialSamples
    /\ x_ag' = RequiresGrad(Leaf("x_t", FALSE))
    /\ indices' = reversed_range(num_timesteps)
    /\ pos' = 0
    /\ yielded' = <<>>
    /\ pc' = "loop"
    /\ UNCHANGED <<samplerConfig, out, upd, final, ms_calls, ms, ag>>
    /\ UNCHANGED <<respaceVars, spacedVars, lossVars, operatorVars>>

\* One pass of the loop: t = [i] * shape[0], x_t = x_t.detach(), p_sample,
\* yield out, x_t = out["sample"].
PSampleLoopStep ==
    /\ sampler = "ancestral"
    /\ pc = "loop"
    /\ LoopHasNext
    /\ \E pmv \in PmvOutputs, noise \in Noises, y_pred \in YPreds, grad \in Grads :
          LET i == indices[pos + 1]
              t == [k \in 1..Len(x_t) |-> i]
          IN  \E r \in {p_sample(x_t, t, pmv, noise, y_pred, grad)} :
              /\ out' = r.record
              /\ upd' = UpdateOf(r)
              /\ yielded' = Append(yielded, i)
              /\ x_t' = r.record.sample
    /\ \E a \in {p_sample_autograd(SetGradEnabled(grad_enabled, TRUE),
                                    Detach(x_ag), Len(yielded) + 1)} :
          /\ ag' = a
          /\ x_ag' = a.returned
    /\ pos' = pos + 1
    /\ UNCHANGED <<samplerConfig, pc, indices, final, ms_calls, ms>>
    /\ UNCHANGED <<respaceVars, spacedVars, lossVars, operatorVars>>

\* The loop is exhausted; p_sample_loop returns final["sample"].
PSampleLoopEnd ==
    /\ sampler = "ancestral"
    /\ pc = "loop"
    /\ LoopExhausted
    /\ final' = out.sample
    /\ pc' = "done"
    /\ UNCHANGED <<samplerConfig, indices, pos, x_t, yielded, out, upd, ms_calls,
                   ms, x_ag, ag>>
    /\ UNCHANGED <<respaceVars, spacedVars, lossVars, operatorVars>>

\* p_sample called on its own, with any timestep per batch element.
PSampleCall ==
    /\ sampler = "ancestral"
    /\ pc = "idle"
    /\ \E x \in InitialSamples, t \in [1..2 -> {0, num_timesteps - 1}],
          pmv \in PmvOutputs, noise \in Noises, y_pred \in YPreds, grad \in Grads :
          \E r \in {p_sample(x, t, pmv, noise, y_pred, grad)} :
              /\ out' = r.record
              /\ upd' = UpdateOf(r)
    /\ \E x \in CallerTensors : ag' = p_sample_autograd(grad_enabled, x, 1)
    /\ pc' = "called"
    /\ UNCHANGED <<samplerConfig, indices, pos, x_t, yielded, final, ms_calls,
                   ms, x_ag>>
    /\ UNCHANGED <<respaceVars, spacedVars, lossVars, operatorVars>>

\* One call of multistep_dpm_solver_update by the solver's driving loop; the
\* value it returns is the next call's x_t.
MultistepUpdate ==
    /\ sampler = "multistep"
    /\ pc = "idle"
    /\ ms_calls < MaxUpdates
    /\ \E order \in Orders, props \in ProposalTriples, t \in Times,
          x0_pred \in PredXstarts, y_pred \in YPreds, grad \in Grads :
          \E r \in {multistep_dpm_solver_update(x_t, t, order, props, x0_pred,
                                               y_pred, grad)} :
              /\ ms' = r
              /\ IF r.raised = "none"
                 THEN /\ x_t' = r.x_out
                      /\ upd' = [valid |-> TRUE, dps |-> r.dps, t |-> <<t>>,
                                 pmv |-> <<>>, noise |-> <<>>]
                      /\ \E a \in {multistep_dpm_solver_update_autograd(
                                        grad_enabled, x_ag, ms_calls + 1)} :
                            /\ ag' = a
                            /\ x_ag' = a.returned
                 ELSE UNCHANGED <<x_t, upd, x_ag, ag>>
    /\ ms_calls' = ms_calls + 1
    /\ UNCHANGED <<samplerConfig, pc, indices, pos, yielded, out, final>>
    /\ UNCHANGED <<respaceVars, spacedVars, lossVars, operatorVars>>

(***************************************************************************)
(* The shapes in dps_update, from self.measurement and the output of       *)
(* self.measurement_model(x0) to the measurement loss.  A shape is the     *)
(* sequence of its dimensions.                                             *)
(***************************************************************************)
MaxRank == 5        \* a shape has 2..MaxRank dimensions

Dims == {1, 2}
Shapes == UNION {[1..r -> Dims] : r \in 2..MaxRank}

\* tensor.unsqueeze(0)
UnsqueezeShape(shape) == <<1>> \o shape

\* if len(tensor.shape) != 4: tensor = tensor.unsqueeze(0)
Batched(shape) == IF Len(shape) # 4 THEN UnsqueezeShape(shape) ELSE shape

\* Broadcasting aligns two shapes at their last dimension; a pair of
\* dimensions is compatible when equal or when one of them is 1.
Broadcastable(a, b) ==
    \A k \in 0..((IF Len(a) < Len(b) THEN Len(a) ELSE Len(b)) - 1) :
        LET da == a[Len(a) - k]
            db == b[Len(b) - k]
        IN  da = db \/ da = 1 \/ db = 1

LossValue(warned) == [raised |-> "none", loss |-> "value", warned |-> warned]
LossRaised(exc, warned) == [raised |-> exc, loss |-> "none", warned |-> warned]

\* th.nn.MSELoss(reduction="sum"): with a target size different from the
\* input size it warns and broadcasts the two against each other; only
\* shapes that cannot be broadcast raise (RuntimeError).
MSELossShapes(x, y) ==
    IF x = y THEN LossValue(FALSE)
    ELSE IF Broadcastable(x, y) THEN LossValue(TRUE)
    ELSE LossRaised("RuntimeError", TRUE)

\* PoissonMseLoss.forward: assert x.shape == y.shape
PoissonMseLossShapes(x, y) ==
    IF x = y THEN LossValue(FALSE) ELSE LossRaised("AssertionError", FALSE)

\* self.measurement_loss, as __init__ selects it.
measurement_loss_shapes(x, y) ==
    IF ls_noise_model = "gaussian" THEN MSELossShapes(x, y)
    ELSE PoissonMseLossShapes(x, y)

DpsShapes(meas, y_pred) ==
    [measurement |-> meas, y_pred |-> y_pred,
     loss |-> measurement_loss_shapes(y_pred, meas)]

\* DiffusionPosteriorSampling.dps_update, up to the loss.
dps_update_shapes(meas, operator_out) ==
    DpsShapes(Batched(meas), Batched(operator_out))

\* DPMDiffusionPosteriorSampling.dps_update, up to the loss.
dpm_dps_update_shapes(meas, operator_out) ==
    DpsShapes(Batched(meas), Batched(operator_out))

NoShapes == [measurement |-> <<>>, y_pred |-> <<>>, loss |-> LossValue(FALSE)]

LossIdle ==
    /\ ls_pc = "idle"
    /\ ls_sampler = "none"
    /\ ls_noise_model = "gaussian"
    /\ ls_measurement = <<>>
    /\ ls_operator_out = <<>>
    /\ ls_result = NoShapes

\* One call of dps_update, followed up to the value of the loss.
DpsUpdateLoss ==
    /\ ls_pc = "ready"
    /\ ls_result' = IF ls_sampler = "ancestral"
                    THEN dps_update_shapes(ls_measurement, ls_operator_out)
                    ELSE dpm_dps_update_shapes(ls_measurement, ls_operator_out)
    /\ ls_pc' = "returned"
    /\ UNCHANGED <<ls_sampler, ls_noise_model, ls_measurement, ls_operator_out>>
    /\ UNCHANGED <<respaceVars, spacedVars, samplerVars, operatorVars>>

(***************************************************************************)
(* Measurement operators.  An image tensor is its shape and its content:   *)
(* what it was made as (base) and the boxes that have been zeroed in it    *)
(* since.  The base of an image handed in by a caller is <<"image">>, and  *)
(* such an image is not zero throughout any box.  A box is <<first row,    *)
(* first column, rows, columns>>.                                          *)
(***************************************************************************)
BoxSide == 128      \* BoxInpainting: the side of the box and of its mask
MaxOpCalls == 2     \* an operator instance is called at most MaxOpCalls times
MaxDraws == 2       \* torch.rand and Kernel(...) have MaxDraws possible outcomes

Heights == {64, 128, 130}
Widths == {128, 130}

Image(shape) == [shape |-> shape, base |-> <<"image">>, zeroed |-> {}]

ImageTensors ==
    {Image(<<3, h, w>>) : h \in Heights, w \in Widths}
    \cup {Image(<<b, 3, h, w>>) : b \in {1, 2}, h \in Heights, w \in Widths}

\* What self.measurement can be.
MeasurementTensors == {Image(<<3, 128, 128>>), Image(<<1, 3, 128, 128>>)}

Min2(a, b) == IF a < b THEN a ELSE b
Max2(a, b) == IF a > b THEN a ELSE b

\* torch.randint(low, high, (1,)).item(): any of low .. high - 1.
Randint(low, high) == low..(high - 1)

\* if len(tensor.shape) == 3: tensor = tensor.unsqueeze(0)  (a view)
Unsqueeze3(shape) == IF Len(shape) = 3 THEN <<1>> \o shape ELSE shape

\* tensor.squeeze(0) if len(tensor.shape) == 4 and tensor.shape[0] == 1
\* else tensor
SqueezeBatch(shape) ==
    IF Len(shape) = 4 /\ shape[1] = 1 THEN Tail(shape) ELSE shape

\* The shape two broadcastable shapes of equal rank broadcast to.
BroadcastShape(a, b) == [k \in 1..Len(a) |-> Max2(a[k], b[k])]

\* What one call can draw: the outcome of torch.rand or of Kernel(...), and
\* the two torch.randint results of BoxInpainting.box for this tensor.
Entropy(tensor) ==
    LET shape == Unsqueeze3(tensor.shape)
        max_x == IF shape[3] >= BoxSide THEN shape[3] - BoxSide ELSE 0
        max_y == IF shape[4] >= BoxSide THEN shape[4] - BoxSide ELSE 0
    IN  [draw : 1..MaxDraws,
         x1 : Randint(0, Max2(1, max_x)),
         x2 : Randint(0, Max2(1, max_y))]

LazyArtifactRebuilt(built, current, fresh) == fresh
\* A memoized artifact: if it is not there yet, it is built; else kept.
LazyArtifact(built, current, fresh) == IF built THEN current ELSE fresh

OperatorKinds == {"Identity", "RandomInpainting", "BoxInpainting", "MotionBlur"}

\* The fields __init__ sets; <<>> is None.
OperatorInit(kind) ==
    IF kind = "RandomInpainting" THEN [mask |-> <<>>]
    ELSE IF kind = "BoxInpainting"
    THEN [x1 |-> <<>>, x2 |-> <<>>, box_h |-> <<>>, box_w |-> <<>>,
          box_values |-> FALSE]
    ELSE IF kind = "MotionBlur" THEN [kernel_tensor |-> <<>>]
    ELSE [none |-> <<>>]

\* What a call hands back: the fields of the operator after it, the
\* argument as it is after it, and the result (aliased: the result is the
\* argument tensor or a view of it).
Applied(fields, arg_after, result, aliased, used) ==
    [raised |-> "none", fields |-> fields, arg_after |-> arg_after,
     result |-> result, aliased |-> aliased, used |-> used]
ApplyRaised(exc, fields, arg_after, used) ==
    [raised |-> exc, fields |-> fields, arg_after |-> arg_after,
     result |-> <<>>, aliased |-> FALSE, used |-> used]

\* Identity.__call__
IdentityCall(fields, tensor, e) == Applied(fields, tensor, tensor, TRUE, <<>>)

\* RandomInpainting.__call__
RandomInpaintingCall(fields, tensor, e) ==
    LET shape == Unsqueeze3(tensor.shape)
        mask == LazyArtifact(fields.mask # <<>>, fields.mask,
                             <<[shape |-> shape, draw |-> e.draw]>>)
        after == [fields EXCEPT !.mask = mask]
    IN  IF Broadcastable(shape, mask[1].shape)
        THEN Applied(after, tensor,
                     [shape |-> SqueezeBatch(BroadcastShape(shape, mask[1].shape)),
                      base |-> <<"masked", tensor, mask[1]>>, zeroed |-> {}],
                     FALSE, mask)
        ELSE ApplyRaised("RuntimeError", after, tensor, mask)

\* BoxInpainting.box
box(fields, shape, e) ==
    LazyArtifact(fields.box_values, fields,
                 [x1 |-> <<e.x1>>, x2 |-> <<e.x2>>,
                  box_h |-> <<Min2(BoxSide, shape[3])>>,
                  box_w |-> <<Min2(BoxSide, shape[4])>>,
                  box_values |-> TRUE])

\* BoxInpainting.__call__: the slice tensor[:, :, x1:x1+box_h, x2:x2+box_w]
\* (clipped to the tensor, as slices are) is multiplied in place by an
\* all-False mask of BoxSide x BoxSide, which needs the slice to have the
\* mask's extent; the slice is a view of the argument.
BoxInpaintingCall(fields, tensor, e) ==
    LET shape == Unsqueeze3(tensor.shape)
        after == box(fields, shape, e)
        x1 == after.x1[1]
        x2 == after.x2[1]
        rows == Min2(x1 + after.box_h[1], shape[3]) - Min2(x1, shape[3])
        cols == Min2(x2 + after.box_w[1], shape[4]) - Min2(x2, shape[4])
        used == <<x1, x2, after.box_h[1], after.box_w[1]>>
        written == [tensor EXCEPT !.zeroed = @ \cup {<<x1, x2, rows, cols>>}]
    IN  IF rows = BoxSide /\ cols = BoxSide
        THEN Applied(after, written,
                     [written EXCEPT !.shape = SqueezeBatch(shape)], TRUE, used)
        ELSE ApplyRaised("RuntimeError", after, tensor, used)

\* MotionBlur.__call__
MotionBlurCall(fields, tensor, e) ==
    LET shape == Unsqueeze3(tensor.shape)
        kernel == LazyArtifact(fields.kernel_tensor # <<>>, fields.kernel_tensor,
                               <<[channels |-> shape[2], draw |-> e.draw]>>)
        after == [fields EXCEPT !.kernel_tensor = kernel]
    IN  IF kernel[1].channels = shape[2]
        THEN Applied(after, tensor,
                     [shape |-> SqueezeBatch(shape),
                      base |-> <<"blurred", tensor, kernel[1]>>, zeroed |-> {}],
                     FALSE, kernel)
        ELSE ApplyRaised("RuntimeError", after, tensor, kernel)

\* self.measurement_model(tensor)
OperatorApply(kind, fields, tensor, e) ==
    IF kind = "RandomInpainting" THEN RandomInpaintingCall(fields, tensor, e)
    ELSE IF kind = "BoxInpainting" THEN BoxInpaintingCall(fields, tensor, e)
    ELSE IF kind = "MotionBlur" THEN MotionBlurCall(fields, tensor, e)
    ELSE IdentityCall(fields, tensor, e)

NoOperatorCall ==
    [via |-> "none", raised |-> "none", arg |-> <<>>, arg_after |-> <<>>,
     result |-> <<>>, aliased |-> FALSE, used |-> <<>>, pred_xstart |-> <<>>,
     measurement_before |-> <<>>, measurement_after |-> <<>>]

OperatorIdle ==
    /\ op_kind = "none"
    /\ op_fields = <<>>
    /\ op_calls = 0
    /\ op_last = NoOperatorCall

\* The operator called on a tensor by any caller.
OperatorCall ==
    /\ op_kind \in OperatorKinds
    /\ op_calls < MaxOpCalls
    /\ \E tensor \in ImageTensors :
          \E e \in Entropy(tensor) :
             \E r \in {OperatorApply(op_kind, op_fields, tensor, e)} :
                /\ op_fields' = r.fields
                /\ op_last' = [via |-> "call", raised |-> r.raised, arg |-> tensor,
                               arg_after |-> r.arg_after, result |-> r.result,
                               aliased |-> r.aliased, used |-> r.used,
                               pred_xstart |-> <<>>,
                               measurement_before |-> <<>>,
                               measurement_after |-> <<>>]
    /\ op_calls' = op_calls + 1
    /\ UNCHANGED op_kind
    /\ UNCHANGED <<respaceVars, spacedVars, samplerVars, lossVars>>

\* The operator called by a step of the ancestral sampler: p_sample takes
\* x0_hat = out["pred_xstart"], dps_update passes it to
\* self.measurement_model, reads self.measurement (unsqueeze gives a view,
\* the loss and the residual norm only read it), and p_sample puts the same
\* x0_hat tensor into the record it returns.
PSampleOperatorCall ==
    /\ op_kind \in OperatorKinds
    /\ op_calls < MaxOpCalls
    /\ \E x0_hat \in {t \in ImageTensors : Len(t.shape) = 4},
          meas \in MeasurementTensors :
          \E e \in Entropy(x0_hat) :
             \E r \in {OperatorApply(op_kind, op_fields, x0_hat, e)} :
                /\ op_fields' = r.fields
                /\ op_last' = [via |-> "p_sample", raised |-> r.raised,
                               arg |-> x0_hat, arg_after |-> r.arg_after,
                               result |-> r.result, aliased |-> r.aliased,
                               used |-> r.used,
                               pred_xstart |-> IF r.raised = "none"
                                               THEN r.arg_after ELSE <<>>,
                               measurement_before |-> meas,
                               measurement_after |-> meas]
    /\ op_calls' = op_calls + 1
    /\ UNCHANGED op_kind
    /\ UNCHANGED <<respaceVars, spacedVars, samplerVars, lossVars>>

(***************************************************************************)
(* Inputs of a space_timesteps call.                                       *)
(***************************************************************************)
MaxN == 6           \* num_timesteps is drawn from 0..MaxN
MaxSections == 2    \* a list has at most MaxSections entries
MaxCount == 3       \* a list entry is drawn from -1..MaxCount
MaxStrLen == 3      \* a string has at most MaxStrLen characters after "ddim"

ListInput(counts) == [kind |-> "list", counts |-> counts, chars |-> <<>>]
StrInput(chars) == [kind |-> "str", counts |-> <<>>, chars |-> chars]

StrAlphabet == {"1", "2", "3", ",", "-"}

SectionInputs ==
    {ListInput(c) : c \in SeqsUpTo((0 - 1)..MaxCount, MaxSections)}
    \cup {StrInput(s) : s \in SeqsUpTo(StrAlphabet, MaxStrLen)}
    \cup {StrInput(DdimPrefix \o s) : s \in SeqsUpTo(StrAlphabet, MaxStrLen)}

\* The documented examples: "250" and "ddim50" on 1000 steps, and the
\* docstring's [10, 15, 20] on 300 steps.
ExampleCalls ==
    { <<1000, StrInput(<<"2", "5", "0">>)>>,
      <<1000, StrInput(DdimPrefix \o <<"5", "0">>)>>,
      <<300, ListInput(<<10, 15, 20>>)>> }

RespaceCalls == ((0..MaxN) \X SectionInputs) \cup ExampleCalls

NoResult == [raised |-> "pending", steps |-> {}]

RespaceIdle ==
    /\ sp_pc = "idle"
    /\ sp_num_timesteps = 0
    /\ sp_section_counts = ListInput(<<>>)
    /\ sp_result = NoResult

InitRespace ==
    /\ SpacedIdle
    /\ SamplerIdle
    /\ LossIdle
    /\ OperatorIdle
    /\ sp_pc = "ready"
    /\ \E call \in RespaceCalls :
          /\ sp_num_timesteps = call[1]
          /\ sp_section_counts = call[2]
    /\ sp_result = NoResult

SpaceTimestepsCall ==
    /\ sp_pc = "ready"
    /\ sp_result' = space_timesteps(sp_num_timesteps, sp_section_counts)
    /\ sp_pc' = "returned"
    /\ UNCHANGED <<sp_num_timesteps, sp_section_counts>>
    /\ UNCHANGED <<spacedVars, samplerVars, lossVars, operatorVars>>

NextRespace == SpaceTimestepsCall

SpecRespace == InitRespace /\ [][NextRespace]_vars

InitSpaced ==
    /\ RespaceIdle
    /\ SamplerIdle
    /\ LossIdle
    /\ OperatorIdle
    /\ sd_pc = "new"
    /\ use_timesteps_arg \in UseTimestepsInputs
    /\ alphas_cumprod \in Schedules
    /\ rescale_timesteps \in BOOLEAN
    /\ use_timesteps = {}
    /\ timestep_map = <<>>
    /\ new_betas = <<>>
    /\ original_num_steps = 0
    /\ num_timesteps = 0
    /\ held = RawModel
    /\ model_calls = 0
    /\ last_model_call = NoCall
    /\ last_invoke = NoInvoke

NextSpaced ==
    \/ SpacedDiffusionInit
    \/ WrapModel
    \/ CallWrapped
    \/ PMeanVariance
    \/ ConditionMean
    \/ ConditionScore

SpecSpaced == InitSpaced /\ [][NextSpaced]_vars

Init ==
    /\ RespaceIdle
    /\ LossIdle
    /\ OperatorIdle
    /\ sd_pc = "idle"
    /\ use_timesteps_arg = <<>>
    /\ alphas_cumprod = <<>>
    /\ rescale_timesteps = FALSE
    /\ use_timesteps = {}
    /\ timestep_map = <<>>
    /\ new_betas = <<>>
    /\ original_num_steps = 0
    /\ held = RawModel
    /\ model_calls = 0
    /\ last_model_call = NoCall
    /\ last_invoke = NoInvoke
    /\ sampler \in {"ancestral", "multistep"}
    /\ num_timesteps \in 1..MaxT
    /\ sampler = "multistep" => num_timesteps = 1
    /\ noise_model \in NoiseModelNames
    /\ step_size \in StepSizes
    /\ measurement \in Measurements
    /\ measurement_loss_fn = "unset"
    /\ init_raised = "none"
    /\ pc = "new"
    /\ indices = <<>>
    /\ pos = 0
    /\ x_t \in IF sampler = "multistep" THEN InitialSamples ELSE {<<>>}
    /\ grad_enabled \in BOOLEAN
    /\ x_ag \in IF sampler = "multistep" THEN CallerTensors
               ELSE {Leaf("x_t", FALSE)}
    /\ ag = NoAutograd
    /\ yielded = <<>>
    /\ out = NoRecord
    /\ upd = NoUpdate
    /\ final = <<>>
    /\ ms_calls = 0
    /\ ms = NoMultistep

Next ==
    \/ SamplerInit
    \/ PSampleLoopBegin
    \/ PSampleLoopStep
    \/ PSampleLoopEnd
    \/ PSampleCall
    \/ MultistepUpdate

Spec == Init /\ [][Next]_vars

InitLoss ==
    /\ RespaceIdle
    /\ SpacedIdle
    /\ SamplerIdle
    /\ OperatorIdle
    /\ ls_pc = "ready"
    /\ ls_sampler \in {"ancestral", "multistep"}
    /\ ls_noise_model \in {"gaussian", "poisson"}
    /\ ls_measurement \in Shapes
    /\ ls_operator_out \in Shapes
    /\ ls_result = NoShapes

NextLoss == DpsUpdateLoss

SpecLoss == InitLoss /\ [][NextLoss]_vars

InitOperators ==
    /\ RespaceIdle
    /\ SpacedIdle
    /\ SamplerIdle
    /\ LossIdle
    /\ op_kind \in OperatorKinds
    /\ op_fields = OperatorInit(op_kind)
    /\ op_calls = 0
    /\ op_last = NoOperatorCall

NextOperators ==
    \/ OperatorCall
    \/ PSampleOperatorCall

SpecOperators == InitOperators /\ [][NextOperators]_vars


(***************************************************************************)
(* Claims about space_timesteps (checked under SpecRespace).               *)
(***************************************************************************)
SpReturned == sp_pc = "returned" /\ sp_result.raised = "none"

SpIsDdim == sp_section_counts.kind = "str" /\ StartsWithDdim(sp_section_counts.chars)

\* The section counts of the call, when it is a section-mode call that parses.
SpCounts ==
    IF sp_section_counts.kind = "str"
    THEN ParseCounts(sp_section_counts.chars).counts
    ELSE sp_section_counts.counts

SpSectionMode ==
    /\ ~SpIsDdim
    /\ sp_section_counts.kind = "str" => ParseCounts(sp_section_counts.chars).ok

SpInRange == sp_result.steps \subseteq 0..(sp_num_timesteps - 1)

\* C5 as stated: whenever a section-mode call returns, the returned set has
\* exactly sum(section_counts) elements, all of them in [0, num_timesteps).
C5_CountAndRange_Original ==
    (SpReturned /\ SpSectionMode) =>
        /\ Cardinality(sp_result.steps) = SumSeq(SpCounts)
        /\ SpInRange

\* C5 amended: the same, for calls whose section counts are all >= 0 (a
\* negative count contributes no index but is still added into the sum).
C5_CountAndRange ==
    (SpReturned /\ SpSectionMode /\ \A i \in 1..Len(SpCounts) : SpCounts[i] >= 0) =>
        /\ Cardinality(sp_result.steps) = SumSeq(SpCounts)
        /\ SpInRange

\* A returned two-section call whose second section is strided by a
\* stride 2 (6 steps, sections of 3, retaining 3 and 2 indices).
C5_Witness ==
    /\ SpReturned
    /\ sp_num_timesteps = 6
    /\ sp_section_counts = StrInput(<<"3", ",", "2">>)
    /\ sp_result.steps = {0, 1, 2, 3, 5}

\* The strides in 1..num_timesteps-1 whose range has exactly n elements.
SpStridesFor(n) ==
    {s \in 1..(sp_num_timesteps - 1) :
        Cardinality({k \in 0..(sp_num_timesteps - 1) : k % s = 0}) = n}

SpMin(S) == CHOOSE m \in S : \A x \in S : m <= x

SpDesired == PyInt(SubSeq(sp_section_counts.chars, 5, Len(sp_section_counts.chars)))

\* C6: a "ddimN" call returns set(range(0, num_timesteps, s)) for the smallest
\* stride s in 1..num_timesteps-1 whose range has N elements, and raises a
\* ValueError exactly when there is no such stride; "ddim50" on 1000 steps
\* gives {0, 20, ..., 980}.
C6_DdimSmallestStride ==
    (sp_pc = "returned" /\ SpIsDdim /\ SpDesired.ok) =>
        LET strides == SpStridesFor(SpDesired.val)
        IN  /\ (strides = {}) <=> (sp_result.raised = "ValueError")
            /\ strides # {} =>
                  /\ sp_result.raised = "none"
                  /\ sp_result.steps =
                        {k \in 0..(sp_num_timesteps - 1) : k % SpMin(strides) = 0}
            /\ (sp_num_timesteps = 1000 /\ SpDesired.val = 50) =>
                  sp_result.steps = {20 * k : k \in 0..49}

C6_Witness ==
    /\ SpReturned
    /\ sp_num_timesteps = 1000
    /\ sp_section_counts = StrInput(DdimPrefix \o <<"5", "0">>)
    /\ sp_result.steps = {20 * k : k \in 0..49}

\* Section i (1-based) of the split of [0, num_timesteps) into k sections.
SpSizeOf(i) ==
    (sp_num_timesteps \div Len(SpCounts))
    + (IF i <= sp_num_timesteps % Len(SpCounts) THEN 1 ELSE 0)

RECURSIVE SpStartOf(_)
SpStartOf(i) == IF i = 1 THEN 0 ELSE SpStartOf(i - 1) + SpSizeOf(i - 1)

SpSection(i) == SpStartOf(i)..(SpStartOf(i) + SpSizeOf(i) - 1)

\* C7: a returned section-mode call retains, in each section, exactly the
\* requested number of indices, all inside that section; a section with
\* count > 1 retains its first and its last index, a section with count 1
\* retains exactly its first index ("250" on 1000 steps retains 0 and 999).
C7_SectionsAndEndpoints ==
    (SpReturned /\ SpSectionMode) =>
        /\ sp_result.steps \subseteq UNION {SpSection(i) : i \in 1..Len(SpCounts)}
        /\ \A i \in 1..Len(SpCounts) :
              LET kept == sp_result.steps \cap SpSection(i)
                  first == SpStartOf(i)
                  last == SpStartOf(i) + SpSizeOf(i) - 1
              IN  /\ Cardinality(kept) = IF SpCounts[i] > 0 THEN SpCounts[i] ELSE 0
                  /\ SpCounts[i] > 1 => (first \in kept /\ last \in kept)
                  /\ SpCounts[i] = 1 => kept = {first}
        /\ (sp_num_timesteps = 1000 /\ SpCounts = <<250>>) =>
              (0 \in sp_result.steps /\ 999 \in sp_result.steps)

C7_Witness ==
    /\ SpReturned
    /\ sp_num_timesteps = 1000
    /\ sp_section_counts = StrInput(<<"2", "5", "0">>)
    /\ 0 \in sp_result.steps
    /\ 999 \in sp_result.steps
    /\ Cardinality(sp_result.steps) = 250


\* Some section of the call asks for more indices than it has.
SpSomeCountExceeds ==
    /\ Len(SpCounts) > 0
    /\ \E i \in 1..Len(SpCounts) : SpCounts[i] > SpSizeOf(i)

\* C15 as stated: a call that is not a "ddimN" call raises ValueError if and
\* only if some section's count exceeds that section's size, and a call that
\* raises hands back no index set.
C15_RaisesIffCountExceeds_Original ==
    (sp_pc = "returned" /\ ~SpIsDdim) =>
        /\ sp_result.raised = "ValueError" <=>
              (/\ sp_section_counts.kind = "str" => ParseCounts(sp_section_counts.chars).ok
               /\ SpSomeCountExceeds)
        /\ sp_result.raised # "none" => sp_result.steps = {}

\* C15 amended: the same for section counts that are integers (a list, or a
\* string whose comma-separated pieces all parse as integers): ValueError if
\* and only if some section's count exceeds its size (size_per, plus one for
\* the first num_timesteps mod k sections), and then no index set.
C15_RaisesIffCountExceeds ==
    (sp_pc = "returned" /\ SpSectionMode) =>
        /\ sp_result.raised = "ValueError" <=> SpSomeCountExceeds
        /\ sp_result.raised # "none" => sp_result.steps = {}

\* 5 steps in two sections of sizes 3 and 2; the second section asks for 3
\* indices after the first one's 2 were already taken: ValueError, no set.
C15_Witness ==
    /\ sp_pc = "returned"
    /\ sp_num_timesteps = 5
    /\ sp_section_counts = ListInput(<<2, 3>>)
    /\ SpSizeOf(2) = 2
    /\ sp_result.raised = "ValueError"
    /\ sp_result.steps = {}


(***************************************************************************)
(* Claims about SpacedDiffusion and _WrappedModel (checked under           *)
(* SpecSpaced).                                                            *)
(***************************************************************************)
SdBuilt == sd_pc = "built"

\* The running product of (1 - new_beta_i), i = 1..j, as <<num, den>>.
RECURSIVE SdKeptProduct(_)
SdKeptProduct(j) ==
    IF j = 0 THEN <<1, 1>>
    ELSE LET p == SdKeptProduct(j - 1)
             b == new_betas[j]
         IN  <<p[1] * (b[2] - b[1]), p[2] * b[2]>>

\* C8: the running product of (1 - new_beta) over the derived increments is,
\* at every retained position j, the original cumulative fraction at
\* timestep_map[j].
C8_RoundTrip ==
    SdBuilt =>
        /\ Len(new_betas) = Len(timestep_map)
        /\ \A j \in 1..Len(timestep_map) :
              SdKeptProduct(j)[1] * AcDen
                 = alphas_cumprod[timestep_map[j] + 1] * SdKeptProduct(j)[2]

\* Original fractions 4/5, 3/5, 1/5 with steps 0 and 2 retained: the second
\* increment, 3/4, is not an increment of the original schedule.
C8_Witness ==
    /\ SdBuilt
    /\ alphas_cumprod = <<4, 3, 1>>
    /\ timestep_map = <<0, 2>>
    /\ new_betas = << <<1, 5>>, <<3, 4>> >>

SdStrictlyIncreasing(m) == \A i \in 1..(Len(m) - 1) : m[i] < m[i + 1]

\* C9: construction leaves timestep_map strictly increasing, holding exactly
\* the members of use_timesteps that index the original schedule (the
\* smallest first), with num_timesteps = len(timestep_map); no later step
\* changes timestep_map.
C9_TimestepMap ==
    /\ [](SdBuilt =>
            /\ SdStrictlyIncreasing(timestep_map)
            /\ Range(timestep_map) = use_timesteps \cap (0..(original_num_steps - 1))
            /\ timestep_map # <<>> =>
                  \A i \in Range(timestep_map) : timestep_map[1] <= i
            /\ num_timesteps = Len(timestep_map))
    /\ [][/\ sd_pc = "new" =>
                /\ original_num_steps' = Len(alphas_cumprod)
                /\ Range(timestep_map') =
                      {i \in Range(use_timesteps_arg) :
                          i \in 0..(Len(alphas_cumprod) - 1)}
          /\ sd_pc = "built" => timestep_map' = timestep_map]_vars

\* Built from a collection naming step 1 and the out-of-range step 3 of a
\* 3-step schedule, and the denoiser has since been called through the map.
C9_Witness ==
    /\ SdBuilt
    /\ original_num_steps = 3
    /\ use_timesteps = {1, 3}
    /\ timestep_map = <<1>>
    /\ model_calls = 1

SdValidTs(ts) == \A k \in 1..Len(ts) : ts[k] \in 0..(Len(timestep_map) - 1)

\* C10: a call of the wrapped model with spaced-schedule indices ts invokes the
\* denoiser exactly once, with timestep_map[ts[k]] for each batch element
\* (times 1000 / original_num_steps iff rescale_timesteps), x and the keyword
\* arguments unchanged; through p_mean_variance too, so the rescaling is
\* applied once.
C10_WrappedCall ==
    (last_invoke.entry # "none" /\ SdValidTs(last_invoke.ts)) =>
        /\ model_calls = last_invoke.calls_before + 1
        /\ last_model_call.x = last_invoke.x
        /\ last_model_call.kwargs = last_invoke.kwargs
        /\ Len(last_model_call.ts) = Len(last_invoke.ts)
        /\ \A k \in 1..Len(last_invoke.ts) :
              last_model_call.ts[k] =
                 IF rescale_timesteps
                 THEN <<timestep_map[last_invoke.ts[k] + 1] * 1000, original_num_steps>>
                 ELSE <<timestep_map[last_invoke.ts[k] + 1], 1>>

\* p_mean_variance with the batch (1, 0) on the map (0, 2) of a rescaling
\* 3-step process: the denoiser sees 2000/3 and 0.
C10_Witness ==
    /\ last_invoke.entry = "p_mean_variance"
    /\ rescale_timesteps
    /\ timestep_map = <<0, 2>>
    /\ original_num_steps = 3
    /\ last_invoke.ts = <<1, 0>>
    /\ last_model_call.ts = << <<2000, 3>>, <<0, 3>> >>
    /\ model_calls = 1

\* The number of _WrappedModel layers around the denoiser.
RECURSIVE SdLayers(_)
SdLayers(m) ==
    IF ~m.wrapped THEN 0
    ELSE IF m.model = <<>> THEN 1 ELSE 1 + SdLayers(m.model[1])

\* C11: _wrap_model returns an already wrapped model as it is, so the model
\* the caller holds and the model any entry point hands on never carry more
\* than one _WrappedModel layer, however often they are wrapped; and a call
\* that went through a re-wrapping entry point (p_mean_variance,
\* condition_mean, condition_score) reached the denoiser with each index
\* translated through timestep_map once.
C11_WrapIdempotent ==
    SdBuilt =>
        /\ SdLayers(held) <= 1
        /\ held.wrapped => _wrap_model(held) = held
        /\ _wrap_model(_wrap_model(held)) = _wrap_model(held)
        /\ SdLayers(_wrap_model(_wrap_model(_wrap_model(held)))) = 1
        /\ (/\ last_invoke.entry \in {"p_mean_variance", "condition_mean",
                                     "condition_score"}
            /\ SdValidTs(last_invoke.ts)) =>
              /\ last_model_call.raised = "none"
              /\ Len(last_model_call.ts) = Len(last_invoke.ts)
              /\ \A k \in 1..Len(last_invoke.ts) :
                    last_model_call.ts[k][1] =
                       timestep_map[last_invoke.ts[k] + 1]
                       * (IF rescale_timesteps THEN 1000 ELSE 1)

\* The caller holds a wrapped model and p_mean_variance wraps it again: index
\* 0 of the map (1, 2) reaches the denoiser as 1 (a second translation would
\* make it 2).
C11_Witness ==
    /\ SdBuilt
    /\ held.wrapped
    /\ ~rescale_timesteps
    /\ timestep_map = <<1, 2>>
    /\ last_invoke.entry = "p_mean_variance"
    /\ last_invoke.ts = <<0>>
    /\ last_model_call.ts = << <<1, 1>> >>


(***************************************************************************)
(* Claims about the posterior samplers (checked under Spec).               *)
(***************************************************************************)
\* C1: a consumed ancestral sampling call yields exactly num_timesteps step
\* records, at timesteps T-1, T-2, ..., 0 in that order, and then ends: the
\* records so far are always a prefix of that sequence, every pass consumes
\* one of the num_timesteps indices, the loop takes another pass while fewer
\* than num_timesteps records are out, and ends once the record at timestep
\* 0 is.
C1_LoopYieldsEveryTimestep ==
    sampler = "ancestral" =>
        /\ Len(yielded) <= num_timesteps
        /\ \A j \in 1..Len(yielded) : yielded[j] = num_timesteps - j
        /\ pc \in {"loop", "done"} =>
              (pos = Len(yielded) /\ Len(indices) = num_timesteps)
        /\ (pc = "loop" /\ Len(yielded) < num_timesteps) =>
              (LoopHasNext /\ ~LoopExhausted)
        /\ (pc = "loop" /\ Len(yielded) = num_timesteps) =>
              (LoopExhausted /\ ~LoopHasNext)
        /\ pc = "done" =>
              /\ Len(yielded) = num_timesteps
              /\ yielded[num_timesteps] = 0
              /\ final = out.sample

C1_Witness ==
    /\ sampler = "ancestral"
    /\ pc = "done"
    /\ num_timesteps = 3
    /\ yielded = <<2, 1, 0>>

\* The squared norm of the residual of the most recent dps_update.
UpdResidualSq ==
    SumSeq([k \in 1..Len(measurement.data) |->
               (upd.dps.y_pred.data[k] - measurement.data[k])
               * (upd.dps.y_pred.data[k] - measurement.data[k])])

\* C2: in either sampler's dps_update the step size is step_size divided by
\* the residual norm when the loss is positive (the norm is then not zero),
\* and step_size itself when the loss is zero; the loss is zero exactly when
\* the residual is, and then the result is x_old - step_size * grad.
C2_StepSize ==
    upd.valid =>
        LET d == upd.dps
            norm == FSqrt(UpdResidualSq)
        IN  /\ RatPositive(d.loss) <=> UpdResidualSq > 0
            /\ RatPositive(d.loss) => (norm > 0 /\ d.zeta = PyRound(step_size, norm))
            /\ ~RatPositive(d.loss) => d.zeta = step_size
            /\ UpdResidualSq = 0 =>
                  \A k \in 1..Len(d.x_old) :
                     d.x_new[k] = d.x_old[k] - step_size * d.grad[k]
            /\ ~d.div_by_zero

\* A Poisson-loss update whose predicted measurement equals the observed one,
\* with a gradient that is not zero.
C2_Witness ==
    /\ upd.valid
    /\ noise_model = "poisson"
    /\ step_size = 8
    /\ upd.dps.y_pred.data = measurement.data
    /\ upd.dps.grad = <<2, -4>>
    /\ upd.dps.zeta = 8
    /\ \A k \in 1..2 : upd.dps.x_new[k] = upd.dps.x_old[k] - 8 * upd.dps.grad[k]

\* C3: the proposal p_sample hands to dps_update is, per batch element,
\* mean + exp(0.5 * log_variance) * noise where the timestep is not 0 and the
\* mean itself where it is 0; the record carries that mean, and when every
\* timestep is 0 its sample is the mean minus the gradient correction.
C3_AncestralProposal ==
    (upd.valid /\ sampler = "ancestral") =>
        /\ \A k \in 1..Len(upd.t) :
              upd.dps.x_old[k] =
                 IF upd.t[k] # 0
                 THEN upd.pmv.mean[k] + (2 ^ upd.pmv.log_variance[k]) * upd.noise[k]
                 ELSE upd.pmv.mean[k]
        /\ out.mean = upd.pmv.mean
        /\ (\A k \in 1..Len(upd.t) : upd.t[k] = 0) =>
              \A k \in 1..Len(upd.t) :
                 out.sample[k] = out.mean[k] - upd.dps.zeta * upd.dps.grad[k]

\* A batch whose first element is at timestep 0 and whose second is not:
\* only the second gets noise (-1 + 2^2 * -1 = -5).
C3_Witness ==
    /\ upd.valid
    /\ sampler = "ancestral"
    /\ upd.t = <<0, 1>>
    /\ upd.pmv.mean = <<3, -1>>
    /\ upd.pmv.log_variance = <<1, 2>>
    /\ upd.noise = <<1, -1>>
    /\ upd.dps.x_old = <<3, -5>>

MsDone == ms_calls > 0 /\ ms.raised = "none"

\* C4 as stated: ... and with a zero gradient the returned value is the
\* order's proposal exactly.
C4_ZeroGradientExact_Original ==
    (MsDone /\ \A k \in 1..Len(ms.dps.grad) : ms.dps.grad[k] = 0) =>
        ms.x_out = ms.props[ms.order]

\* C4 amended: for order 1, 2 or 3 the update returns
\* 0.7 * (corrected proposal) + 0.3 * (that order's proposal), each product
\* rounded; with a zero gradient the corrected proposal is the proposal, and
\* the returned value is within one unit in the last place of it.
C4_Blend ==
    MsDone =>
        LET proposal == ms.props[ms.order]
        IN  /\ ms.order \in {1, 2, 3}
            /\ ms.dps.x_old = proposal
            /\ x_t = ms.x_out
            /\ \A k \in 1..Len(proposal) :
                  /\ ms.x_out[k] = PyRound(7 * ms.dps.x_new[k], 10)
                                   + PyRound(3 * proposal[k], 10)
                  /\ ms.dps.grad[k] = 0 =>
                        /\ ms.dps.x_new[k] = proposal[k]
                        /\ Abs(ms.x_out[k] - proposal[k]) <= 1

\* A first-order update with a zero gradient whose proposal (5, -5) comes
\* back as (6, -6): 3.5 rounds to 4 and 1.5 to 2.
C4_Witness ==
    /\ MsDone
    /\ ms.order = 1
    /\ ms.dps.grad = <<0, 0>>
    /\ ms.proposal = <<5, -5>>
    /\ ms.x_out = <<6, -6>>

\* C13: a sampler object is obtained only for the noise models "gaussian"
\* and "poisson", with the matching measurement loss set; for any other name
\* the constructor call of either class ends with an exception, and nothing
\* is ever done with the object it was building.
C13_InvalidNoiseModelFails ==
    /\ pc \notin {"new", "failed"} =>
          /\ init_raised = "none"
          /\ noise_model \in {"gaussian", "poisson"}
          /\ measurement_loss_fn =
                IF noise_model = "gaussian" THEN "MSELoss" ELSE "PoissonMseLoss"
    /\ (pc # "new" /\ noise_model \notin {"gaussian", "poisson"}) =>
          /\ pc = "failed"
          /\ init_raised \in {"TypeError", "NotImplementedError"}
          /\ upd = NoUpdate /\ out = NoRecord /\ ms_calls = 0 /\ yielded = <<>>

\* DiffusionPosteriorSampling built with noise model "laplace": __init__
\* returns the class NotImplementedError, so the call raises TypeError.
C13_Witness ==
    /\ sampler = "ancestral"
    /\ noise_model = "laplace"
    /\ pc = "failed"
    /\ init_raised = "TypeError"
    /\ measurement_loss_fn = "unset"

\* C14: multistep_dpm_solver_update with an order other than 1, 2, 3 raises
\* ValueError and hands back no sample; with order 1, 2 or 3 the proposal is
\* the first-, second- or third-order update's value, that is what
\* dps_update corrects, and the blended result becomes the rolling state.
C14_OrderSelectsUpdate ==
    (sampler = "multistep" /\ ms_calls > 0) =>
        /\ ms.raised = "ValueError" <=> ms.order \notin {1, 2, 3}
        /\ ms.raised \in {"none", "ValueError"}
        /\ ms.raised = "ValueError" => (ms.x_out = <<>> /\ ms.proposal = <<>>)
        /\ ms.raised = "none" =>
              /\ ms.proposal = ms.props[ms.order]
              /\ ms.dps.x_old = ms.props[ms.order]
              /\ x_t = ms.x_out

\* A third-order update whose proposal is the third of the three supplied,
\* and after it an update called with order 4: ValueError, and no sample.
C14_Witness ==
    /\ sampler = "multistep"
    /\ ms_calls = 2
    /\ upd.valid
    /\ upd.dps.x_old = <<-5, 0>>
    /\ ms.order = 4
    /\ ms.raised = "ValueError"
    /\ ms.x_out = <<>>


\* The tensors of the latest step that can carry a graph.
AgTensors ==
    {ag.x, ag.mean, ag.log_variance, ag.x0, ag.proposal, ag.dps.y_pred,
     ag.dps.loss, ag.dps.zeta, ag.dps.x_new, ag.returned}

\* No graph is reachable from the tensor.
Severed(tensor) == tensor.graph = {} /\ tensor.through = {}

\* C17: between two steps of the ancestral loop the rolling state is the
\* "sample" of the record just yielded, p_sample was handed a tensor that
\* does not require grad and has no history, and the state has none either;
\* multistep_dpm_solver_update works on a tensor without history, whatever
\* it was handed, and returns a leaf (requiring grad) that is the rolling
\* state; in both samplers every graph of the latest step consists of that
\* step's operations only.
C17_StateDetachedBetweenSteps ==
    /\ (sampler = "ancestral" /\ pc \in {"loop", "done"} /\ Len(yielded) > 0) =>
          /\ ag.valid
          /\ ag.step = Len(yielded)
          /\ ~ag.x_in.requires_grad
          /\ Severed(ag.x_in)
          /\ x_t = out.sample
          /\ x_ag = ag.returned
          /\ ~x_ag.requires_grad
          /\ Severed(x_ag)
          /\ \A tensor \in AgTensors : tensor.graph \subseteq {ag.step}
    /\ (sampler = "multistep" /\ ag.valid) =>
          /\ ag.step <= ms_calls
          /\ Severed(ag.x)
          /\ x_ag = ag.returned
          /\ x_ag.requires_grad
          /\ Severed(x_ag)
          /\ ms.raised = "none" => x_t = ms.x_out
          /\ \A tensor \in AgTensors : tensor.graph \subseteq {ag.step}

\* After the second step of an ancestral run entered with gradients
\* disabled: the clean-signal estimate carries the graph of step 2 alone,
\* and the state for the third step carries none.
C17_Witness ==
    /\ sampler = "ancestral"
    /\ pc = "loop"
    /\ ~grad_enabled
    /\ Len(yielded) = 2
    /\ LoopHasNext
    /\ ag.x0.requires_grad
    /\ ag.x0.graph = {2}
    /\ ag.dps.loss.graph = {2}
    /\ Severed(x_ag)
    /\ x_t = out.sample

\* C18: in either mode of the caller, dps_update runs the measurement
\* operator, the loss and autograd.grad with gradients enabled, the gradient
\* is taken against x (and exists: the loss requires grad and x is in its
\* graph), not against x0; the step size and the update run with gradients
\* disabled; p_sample queries p_mean_variance with gradients enabled.
C18_GradModesInDpsUpdate ==
    ag.valid =>
        /\ ag.dps.operator_mode
        /\ ag.dps.loss_mode
        /\ ag.dps.grad_mode
        /\ ag.dps.y_pred.requires_grad
        /\ ag.dps.loss.requires_grad
        /\ ag.dps.grad_raised = "none"
        /\ ag.dps.grad_wrt = ag.x.id
        /\ ag.dps.grad_wrt # ag.x0.id
        /\ ~ag.dps.zeta_mode
        /\ ~ag.dps.update_mode
        /\ ~ag.dps.x_new.requires_grad
        /\ sampler = "ancestral" =>
              /\ ag.query_mode
              /\ ag.x0.requires_grad
              /\ ag.mean.requires_grad

\* p_sample called directly by a caller that has gradients disabled: the
\* prior sample is computed untracked, the loss is tracked all the same.
C18_Witness ==
    /\ sampler = "ancestral"
    /\ pc = "called"
    /\ ~grad_enabled
    /\ ag.valid
    /\ ~ag.caller
    /\ ~ag.proposal.requires_grad
    /\ ag.dps.loss.requires_grad
    /\ ag.dps.loss.through = {"x", "pred_xstart", "y_pred"}
    /\ ag.dps.grad_wrt = "x"


(***************************************************************************)
(* Claims about the shapes in dps_update (checked under SpecLoss).         *)
(***************************************************************************)
LsReturned == ls_pc = "returned"

\* C12 as stated: whichever loss is selected, a predicted measurement whose
\* shape differs from the observed measurement's makes the loss fail with an
\* error, and no loss value comes back.
C12_BothLossesReject ==
    (LsReturned /\ ls_result.y_pred # ls_result.measurement) =>
        (ls_result.loss.raised # "none" /\ ls_result.loss.loss = "none")

\* C16 as stated: the observed and the predicted measurement get a leading
\* dimension only when their rank is 3; a tensor of another rank reaches the
\* loss with the shape it came with.
C16_UnsqueezeOnlyRank3 ==
    LsReturned =>
        /\ ls_result.measurement # ls_measurement => Len(ls_measurement) = 3
        /\ ls_result.y_pred # ls_operator_out => Len(ls_operator_out) = 3


(***************************************************************************)
(* Claims about the measurement operators (checked under SpecOperators).   *)
(***************************************************************************)
OpLazy == op_kind \in {"RandomInpainting", "BoxInpainting", "MotionBlur"}

\* The lazily built artifact of the instance; <<>> while it is not built.
OpArtifact(fields) ==
    IF op_kind = "RandomInpainting" THEN fields.mask
    ELSE IF op_kind = "MotionBlur" THEN fields.kernel_tensor
    ELSE IF fields.box_values
         THEN <<fields.x1[1], fields.x2[1], fields.box_h[1], fields.box_w[1]>>
         ELSE <<>>

\* C19: RandomInpainting's mask, BoxInpainting's box and MotionBlur's kernel
\* do not exist before the first call of the instance, exist after it, and
\* no later call changes them; every call applies the artifact the instance
\* holds.
C19_ArtifactBuiltOnce ==
    [][OpLazy =>
          /\ op_calls = 0 => OpArtifact(op_fields) = <<>>
          /\ op_calls' = op_calls + 1 =>
                /\ OpArtifact(op_fields') # <<>>
                /\ op_last'.used = OpArtifact(op_fields')
          /\ op_calls >= 1 => op_fields' = op_fields]_vars

\* A BoxInpainting instance first called on a 128-row image, where the box
\* can only start at row 0, and then on a 130 x 130 image, where a new box
\* could start at row 1: the second call reuses the box of the first.
C19_Witness ==
    /\ op_kind = "BoxInpainting"
    /\ op_calls = 2
    /\ op_last.raised = "none"
    /\ op_last.arg.shape = <<1, 3, 130, 130>>
    /\ op_fields.x1 = <<0>>
    /\ op_last.used = <<0, 0, 128, 128>>

\* C20: after a call of a measurement operator that returned, the argument
\* holds what it held before; the "pred_xstart" of the record p_sample
\* returns is the estimate p_mean_variance produced; self.measurement is
\* as it was.
C20_OperatorLeavesArgument ==
    (op_calls > 0 /\ op_last.raised = "none") =>
        /\ op_last.arg_after = op_last.arg
        /\ op_last.via = "p_sample" =>
              /\ op_last.pred_xstart = op_last.arg
              /\ op_last.measurement_after = op_last.measurement_before



=============================================================================
